---- MODULE Spec2Model ----
(***************************************************************************)
(* Persistence and storage-pressure recovery of the Yatra client register. *)
(*                                                                         *)
(* Primary tier  : IndexedDB database 'YatraDB', object stores 'clients'   *)
(*                 and 'backgrounds' (services/db.ts).                     *)
(* Fallback tier : localStorage item 'yatra_entries_backup', one JSON text *)
(*                 holding the whole collection (App component).           *)
(* Every action is one handler of the App component or of the storage      *)
(* recovery dialog, taken as a whole, with the outcome of each tier        *)
(* operation it awaits chosen by the environment.                          *)
(***************************************************************************)
EXTENDS Integers, Sequences, FiniteSets, TLC

(***************************************************************************)
(* Bounds of the model.                                                    *)
(***************************************************************************)
\* number of records the application creates in one behaviour
MaxSaves == 2
\* number of background images uploaded in one behaviour
MaxBg == 2
\* number of records the store holds when a sweep is studied on its own
MaxStore == 3
\* records a sweep visits before one of its requests fails
MaxVisited == 1
\* writes started and not yet settled
MaxPending == 2
\* largest value drawn for Math.floor(Math.random() * 1000)
MaxRand == 1
\* milliseconds per day, scaled down (the code uses 24 * 60 * 60 * 1000)
DayMs == 2

(***************************************************************************)
(* Program constants.                                                      *)
(***************************************************************************)
\* handleOptimizeImages: dbService.stripOldPhotos(30)
StripDays == 30
\* handleDeleteOld: dbService.deleteOldRecords(365)
DeleteDays == 365

\* The instants Date.now() takes: two adjacent milliseconds, then one
\* millisecond past each age threshold counted from instant 0, so that a
\* record is met strictly older than, exactly at and younger than a cutoff.
Instants == {0, 1, StripDays * DayMs + 1, DeleteDays * DayMs + 1}

(***************************************************************************)
(* Values.                                                                 *)
(***************************************************************************)
\* clientPhoto?: string -- the property holds undefined, or is missing after a
\* JSON round trip, or holds the data URL of the photo
Undefined == "undefined"
Absent == "absent"
PhotoData == "data:image/jpeg"
Names == {"a"}

\* useState<ClientEntry | null>(null)
Null == [id |-> -1, timestamp |-> -1, clientPhoto |-> Absent, clientName |-> ""]

\* entry.clientPhoto used as a condition: undefined and a missing key are falsy
Truthy(photo) == photo \notin {Undefined, Absent}

Ids(s) == {s[i].id : i \in 1..Len(s)}
Occurrences(s, id) == Cardinality({i \in 1..Len(s) : s[i].id = id})

(***************************************************************************)
(* Failure values of the two tiers.                                        *)
(***************************************************************************)
NoError == [kind |-> "none", code |-> 0, name |-> "", message |-> ""]
\* transaction.error read inside transaction.onerror, before the abort
NullError == [kind |-> "null", code |-> 0, name |-> "", message |-> ""]
Unsupported ==
    [kind |-> "Error", code |-> 0, name |-> "Error",
     message |-> "IndexedDB is not supported in this browser environment."]
\* mutant: request.onerror rejects with the error of the open request
FailedOpenPassesCause ==
    [kind |-> "DOMException", code |-> 22, name |-> "QuotaExceededError",
     message |-> "The quota has been exceeded."]

FailedOpen ==
    [kind |-> "Error", code |-> 0, name |-> "Error",
     message |-> "Failed to open database."]
QuotaExceededError ==
    [kind |-> "DOMException", code |-> 22, name |-> "QuotaExceededError",
     message |-> "The quota has been exceeded."]
QuotaReached ==
    [kind |-> "DOMException", code |-> 1014, name |-> "NS_ERROR_DOM_QUOTA_REACHED",
     message |-> "Persistent storage maximum size reached"]
QuotaMessage ==
    [kind |-> "Error", code |-> 0, name |-> "Error",
     message |-> "Disk QUOTA limit hit"]
UnknownError ==
    [kind |-> "DOMException", code |-> 0, name |-> "UnknownError",
     message |-> "Internal error."]
SecurityError ==
    [kind |-> "DOMException", code |-> 18, name |-> "SecurityError",
     message |-> "The operation is insecure."]

\* openDB: what the returned promise rejects with
OpenFailures == {Unsupported, FailedOpen, SecurityError}
\* store.put / db.transaction: request.error or the exception thrown
PutFailures == {QuotaExceededError, QuotaReached, UnknownError}
\* store.getAll request.error
ReadFailures == {UnknownError}
\* localStorage.setItem
SetItemFailures == {QuotaExceededError, QuotaMessage}
\* localStorage.getItem, and setItem where storage is denied
GetItemFailures == {SecurityError}

(***************************************************************************)
(* Quota classifier.                                                       *)
(***************************************************************************)
LowerChar(c) ==
    CASE c = "Q" -> "q" [] c = "U" -> "u" [] c = "O" -> "o" [] c = "T" -> "t"
      [] c = "A" -> "a" [] c = "D" -> "d" [] c = "I" -> "i" [] c = "F" -> "f"
      [] c = "P" -> "p" [] c = "B" -> "b" [] OTHER -> c

RECURSIVE ToLowerCase(_)
ToLowerCase(s) ==
    IF Len(s) = 0 THEN ""
    ELSE LowerChar(SubSeq(s, 1, 1)) \o ToLowerCase(SubSeq(s, 2, Len(s)))

Includes(s, t) ==
    \E i \in 1..(Len(s) - Len(t) + 1) : SubSeq(s, i, i + Len(t) - 1) = t

isQuotaError(e) ==
    /\ e.kind = "DOMException"
    /\ \/ e.code = 22
       \/ e.code = 1014
       \/ e.name = "QuotaExceededError"
       \/ e.name = "NS_ERROR_DOM_QUOTA_REACHED"

\* isQuotaError(err) || err.message?.toLowerCase().includes('quota')
MatchesQuota(e) == isQuotaError(e) \/ Includes(ToLowerCase(e.message), "quota")

\* the failure values that reach the classifier, and the class of each
Failures == OpenFailures \cup PutFailures \cup SetItemFailures \cup GetItemFailures

Classes == [e \in Failures |-> IF MatchesQuota(e) THEN "Quota" ELSE "Other"]

Classify(e) == Classes[e]

(***************************************************************************)
(* Primary tier: object store 'clients', keyPath 'id'.                     *)
(***************************************************************************)
\* store.put(client): add, or replace the record stored under the same key
Put(store, client) == {x \in store : x.id # client.id} \cup {client}

\* mutant: the delete request is never issued
DeleteNothing(store, id) == store

\* store.delete(id)
Delete(store, id) == {x \in store : x.id # id}

\* store.getAll(): the records in ascending key order
RECURSIVE GetAll(_)
GetAll(store) ==
    IF store = {} THEN <<>>
    ELSE LET m == CHOOSE x \in store : \A y \in store : x.id <= y.id
         IN  <<m>> \o GetAll(store \ {m})

\* one step of the stable sort: e goes behind every element that is newer
RECURSIVE InsertByTimestamp(_, _)
InsertByTimestamp(e, s) ==
    IF s = <<>> THEN <<e>>
    ELSE IF Head(s).timestamp > e.timestamp
         THEN <<Head(s)>> \o InsertByTimestamp(e, Tail(s))
         ELSE <<e>> \o s

\* mutant: the records are returned in key order, unsorted
SortSkipped(s) == s

\* results.sort((a, b) => b.timestamp - a.timestamp)
RECURSIVE SortNewestFirst(_)
SortNewestFirst(s) ==
    IF s = <<>> THEN <<>>
    ELSE InsertByTimestamp(Head(s), SortNewestFirst(Tail(s)))

(***************************************************************************)
(* Fallback tier: JSON text of the whole collection.                       *)
(***************************************************************************)
\* JSON.stringify of one entry: a property holding undefined is left out
StringifyEntry(e) ==
    <<<<"id", e.id>>, <<"clientName", e.clientName>>>>
    \o (IF e.clientPhoto \in {Undefined, Absent} THEN <<>>
        ELSE <<<<"clientPhoto", e.clientPhoto>>>>)
    \o <<<<"timestamp", e.timestamp>>>>

JSONStringify(s) == [i \in 1..Len(s) |-> StringifyEntry(s[i])]

HasKey(obj, key) == \E i \in 1..Len(obj) : obj[i][1] = key
ValueOf(obj, key) == obj[CHOOSE i \in 1..Len(obj) : obj[i][1] = key][2]

ParseEntry(obj) ==
    [id |-> ValueOf(obj, "id"),
     timestamp |-> ValueOf(obj, "timestamp"),
     clientPhoto |-> IF HasKey(obj, "clientPhoto") THEN ValueOf(obj, "clientPhoto")
                     ELSE Absent,
     clientName |-> ValueOf(obj, "clientName")]

JSONParse(text) == [i \in 1..Len(text) |-> ParseEntry(text[i])]

\* localStorage item: getItem returns null until the first setItem
NoItem == [present |-> FALSE, text |-> <<>>]
Item(text) == [present |-> TRUE, text |-> text]

\* JSON.parse(localStorage.getItem('yatra_entries_backup') || '[]')
ParseOrEmpty(item) == IF item.present THEN JSONParse(item.text) ELSE <<>>

(***************************************************************************)
(* State.                                                                  *)
(***************************************************************************)
VARIABLES
    now,                  \* Date.now()
    created,              \* records created so far by AddClientView
    clients,              \* Primary: object store 'clients'
    backgrounds,          \* Primary: object store 'backgrounds'
    yatra_entries_backup, \* Fallback: the localStorage item
    entries,              \* App state: the ledger in memory
    bgImages,             \* App state: the backgrounds in memory
    showStorageModal,     \* App state
    failedEntry,          \* App state
    last,                 \* the last handler run: its inputs and its outcome
    hist                  \* ids saved / deleted with success and not undone since,
                          \* and the writes started and not yet settled

vars == <<now, created, clients, backgrounds, yatra_entries_backup, entries,
          bgImages, showStorageModal, failedEntry, last, hist>>

\* The record of a handler run: the entry or id it was given, what each tier
\* operation it awaited rejected with (NoError: it resolved, or was not
\* reached), the branch it ended in, the alert and console message it
\* raised, the count a sweep returned, the tier the ledger was read from,
\* and the contents of the two tiers when it started.
\* A sweep called on its own also records its argument, the instant it
\* read from Date.now() and the sweep that completed before it. A sweep
\* records what its transaction aborted with after the count was resolved
\* (commit) and the number of records its cursor had visited when a
\* request failed (visited); a sweep followed request by request records
\* the keys its cursor has yielded (trail); an upload records the outcome of
\* each file. A handler that asks window.confirm records the answer (confirm).
NoSweep == [op |-> "none", days |-> 0, at |-> 0, count |-> 0]

NoCall ==
    [op |-> "none", entry |-> Null, id |-> -1, primary |-> NoError,
     fallback |-> NoError, bg |-> NoError, refresh |-> NoError,
     outcome |-> "none", alert |-> "none", log |-> "none", count |-> 0,
     served |-> "none", before |-> [clients |-> {}, backup |-> NoItem],
     days |-> 0, at |-> 0, prev |-> NoSweep, uploads |-> <<>>,
     commit |-> NoError, visited |-> 0, trail |-> <<>>, confirm |-> "none"]

Call(op) ==
    [NoCall EXCEPT !.op = op,
                   !.before = [clients |-> clients, backup |-> yatra_entries_backup]]

Init ==
    /\ now = 0
    /\ created = 0
    /\ clients = {}
    /\ backgrounds = {}
    /\ yatra_entries_backup = NoItem
    /\ entries = <<>>
    /\ bgImages = <<>>
    /\ showStorageModal = FALSE
    /\ failedEntry = Null
    /\ last = NoCall
    /\ hist = [saved |-> {}, deleted |-> {}, pending |-> <<>>]

\* time passes
Tick ==
    /\ \E t \in Instants : t > now /\ now' = t
    /\ UNCHANGED <<created, clients, backgrounds, yatra_entries_backup,
                   entries, bgImages, showStorageModal, failedEntry, last, hist>>

(***************************************************************************)
(* handleSaveEntry, called by AddClientView.handleSubmit once confirmed.   *)
(***************************************************************************)
\* what the environment can answer to dbService.saveClient
SaveClientResults == {NoError} \cup OpenFailures \cup PutFailures
\* ... to the getItem / setItem pair of the fallback write
BackupWriteResults == {NoError} \cup GetItemFailures \cup SetItemFailures
\* ... where the handler swallows the failure whatever it is
BackupUpdateResults == {NoError} \cup GetItemFailures

\* mutant: the catch block goes to the fallback without classifying err
SaveOutcomeUnclassified(p, f) ==
    IF p = NoError THEN "SavedPrimary"
    ELSE IF f = NoError THEN "SavedFallback"
    ELSE IF Classify(f) = "Quota" THEN "QuotaExceeded"
    ELSE "Fatal"

\* mutant: the inner catch block reports every failure without classifying it
SaveOutcomeFallbackFatal(p, f) ==
    IF p = NoError THEN "SavedPrimary"
    ELSE IF Classify(p) = "Quota" THEN "QuotaExceeded"
    ELSE IF f = NoError THEN "SavedFallback"
    ELSE "Fatal"

\* mutant: the inner catch block opens the dialog for every failure
SaveOutcomeFallbackQuota(p, f) ==
    IF p = NoError THEN "SavedPrimary"
    ELSE IF Classify(p) = "Quota" THEN "QuotaExceeded"
    ELSE IF f = NoError THEN "SavedFallback"
    ELSE "QuotaExceeded"

\* mutant: the inner catch block tests isQuotaError(lsErr) alone
SaveOutcomeFallbackByCode(p, f) ==
    IF p = NoError THEN "SavedPrimary"
    ELSE IF Classify(p) = "Quota" THEN "QuotaExceeded"
    ELSE IF f = NoError THEN "SavedFallback"
    ELSE IF isQuotaError(f) THEN "QuotaExceeded"
    ELSE "Fatal"

\* the branch handleSaveEntry ends in, p and f being the failures of the tiers
SaveOutcome(p, f) ==
    IF p = NoError THEN "SavedPrimary"
    ELSE IF Classify(p) = "Quota" THEN "QuotaExceeded"
    ELSE IF f = NoError THEN "SavedFallback"
    ELSE IF Classify(f) = "Quota" THEN "QuotaExceeded"
    ELSE "Fatal"

\* whether the fallback write is attempted at all
FallbackTried(p) == p # NoError /\ Classify(p) # "Quota"

\* mutant: the new entry is put behind the entries already stored
BackupAfterSaveAppends(item, newEntry) ==
    Item(JSONStringify(ParseOrEmpty(item) \o <<newEntry>>))

\* const updatedData = [newEntry, ...currentData]; setItem(JSON.stringify(updatedData))
BackupAfterSave(item, newEntry) ==
    Item(JSONStringify(<<newEntry>> \o ParseOrEmpty(item)))

\* setEntries(prev => [newEntry, ...prev])
Prepend(entry, prev) == <<entry>> \o prev

\* mutant: a quota outcome raises the alert of the last catch block
SaveAlertOnQuota(outcome) ==
    CASE outcome = "SavedFallback" -> "Saved to Local Backup (Database unavailable)."
      [] outcome \in {"Fatal", "QuotaExceeded"} -> "Error saving record"
      [] OTHER -> "none"

SaveAlert(outcome) ==
    CASE outcome = "SavedFallback" -> "Saved to Local Backup (Database unavailable)."
      [] outcome = "Fatal" -> "Error saving record"
      [] OTHER -> "none"

\* rest: the writes that are still in flight when this one has settled
handleSaveEntry(newEntry, p, f, rest) ==
    LET outcome == SaveOutcome(p, f)
        tried == FallbackTried(p)
    IN  /\ clients' = IF outcome = "SavedPrimary" THEN Put(clients, newEntry)
                      ELSE clients
        /\ yatra_entries_backup' =
              IF outcome = "SavedFallback"
              THEN BackupAfterSave(yatra_entries_backup, newEntry)
              ELSE yatra_entries_backup
        /\ entries' = IF outcome \in {"SavedPrimary", "SavedFallback"}
                      THEN Prepend(newEntry, entries) ELSE entries
        /\ failedEntry' = IF outcome = "QuotaExceeded" THEN newEntry ELSE failedEntry
        /\ showStorageModal' = IF outcome = "QuotaExceeded" THEN TRUE
                               ELSE showStorageModal
        /\ last' = [Call("save") EXCEPT !.op = "save", !.entry = newEntry,
                                  !.id = newEntry.id, !.primary = p,
                                  !.fallback = IF tried THEN f ELSE NoError,
                                  !.outcome = outcome, !.alert = SaveAlert(outcome)]
        /\ hist' = IF outcome \in {"SavedPrimary", "SavedFallback"}
                   THEN [saved |-> hist.saved \cup {newEntry.id},
                         deleted |-> hist.deleted \ {newEntry.id},
                         pending |-> rest]
                   ELSE [hist EXCEPT !.pending = rest]

\* const timestamp = Date.now(); const uniqueId = timestamp + Math.floor(Math.random() * 1000)
NewEntry(timestamp, random, photo, name) ==
    [id |-> timestamp + random, timestamp |-> timestamp, clientPhoto |-> photo,
     clientName |-> name]

\* the storage recovery dialog covers the whole window while it is shown
DialogShown == showStorageModal /\ failedEntry # Null

\* AddClientView.handleSubmit, confirmed
Submit ==
    /\ ~DialogShown
    /\ created < MaxSaves
    /\ created' = created + 1
    /\ \E random \in 0..MaxRand, photo \in {Undefined, PhotoData}, name \in Names,
          p \in SaveClientResults :
          \E f \in (IF FallbackTried(p) THEN BackupWriteResults ELSE {NoError}) :
             handleSaveEntry(NewEntry(now, random, photo, name), p, f, hist.pending)
    /\ UNCHANGED <<now, backgrounds, bgImages>>

(***************************************************************************)
(* loadData, run once when the App component mounts.                       *)
(***************************************************************************)
\* what the environment can answer to dbService.getAllClients (a failed
\* getAll request rejects the promise as a failed open does)
GetAllClientsResults == {NoError, FailedOpen}
\* ... to dbService.getAllBackgrounds: an open failure is caught inside it
\* and answered by [], a failed getAll request rejects the promise it returns
GetAllBackgroundsResults == {NoError, FailedOpen} \cup ReadFailures
\* ... to localStorage.getItem
GetItemResults == {NoError} \cup GetItemFailures

\* dbService.getAllClients, when it resolves
getAllClients(store) == SortNewestFirst(GetAll(store))

\* backgrounds.getAll(): ascending key order
RECURSIVE getAllBackgrounds(_)
getAllBackgrounds(store) ==
    IF store = {} THEN <<>>
    ELSE LET m == CHOOSE x \in store : \A y \in store : x <= y
         IN  <<m>> \o getAllBackgrounds(store \ {m})

\* loadData leaves its try block by an exception: getAllClients rejected, or
\* it resolved and the getAllBackgrounds awaited after it rejected
LoadCatches(p, b) == p # NoError \/ b \in ReadFailures

\* the catch block calls setEntries(JSON.parse(localData))
LoadReadsBackup(p, b, g, item) == LoadCatches(p, b) /\ g = NoError /\ item.present

\* the ledger loadData leaves in memory, starting from useState([])
LoadedEntries(p, b, g, store, item) ==
    IF LoadReadsBackup(p, b, g, item) THEN JSONParse(item.text)
    ELSE IF p = NoError THEN getAllClients(store)
    ELSE <<>>

\* setBgImages(bgs) is reached only when both awaits of the try block resolve
LoadedBackgrounds(p, b, store) ==
    IF p = NoError /\ b = NoError THEN getAllBackgrounds(store) ELSE <<>>

LoadLog(p, b, g) ==
    IF ~LoadCatches(p, b) THEN "none"
    ELSE IF g = NoError THEN "warn" ELSE "error"

Mount ==
    \E p \in GetAllClientsResults :
    \E b \in (IF p = NoError THEN GetAllBackgroundsResults ELSE {NoError}) :
    \E g \in (IF LoadCatches(p, b) THEN GetItemResults ELSE {NoError}) :
       LET caught == LoadCatches(p, b)
       IN  /\ entries' = LoadedEntries(p, b, g, clients, yatra_entries_backup)
           /\ bgImages' = LoadedBackgrounds(p, b, backgrounds)
           /\ showStorageModal' = FALSE
           /\ failedEntry' = Null
           /\ last' = [Call("load") EXCEPT !.op = "load", !.primary = p,
                  !.bg = b, !.fallback = g,
                  !.log = LoadLog(p, b, g),
                  !.outcome = "loaded",
                  !.served = IF LoadReadsBackup(p, b, g, yatra_entries_backup)
                             THEN "Fallback"
                             ELSE IF p = NoError THEN "Primary" ELSE "none"]
           /\ UNCHANGED <<now, created, clients, backgrounds,
                          yatra_entries_backup, hist>>

(***************************************************************************)
(* handleDeleteEntry, once confirmed.                                      *)
(***************************************************************************)
\* dbService.deleteClient rejects with what openDB rejected with, or with
\* transaction.error as read inside transaction.onerror
DeleteClientResults == {NoError, FailedOpen, NullError}

\* prev.filter(e => e.id !== id)
WithoutId(s, id) == SelectSeq(s, LAMBDA e : e.id # id)

\* mutant: the filter keeps the entry of the id and drops the others
BackupAfterDeleteKeepsId(item, id, f) ==
    IF f = NoError
    THEN Item(JSONStringify(SelectSeq(ParseOrEmpty(item), LAMBDA e : e.id = id)))
    ELSE item

\* the inner try block: parse, filter, setItem
BackupAfterDelete(item, id, f) ==
    IF f = NoError THEN Item(JSONStringify(WithoutId(ParseOrEmpty(item), id)))
    ELSE item

\* mutant: the row is taken out of the ledger before the delete is awaited
handleDeleteEntryOptimistic(id, p, f, rest) ==
    IF p # NoError
    THEN /\ entries' = WithoutId(entries, id)
         /\ last' = [Call("delete") EXCEPT !.op = "delete", !.id = id, !.primary = p,
                                   !.outcome = "failed",
                                   !.alert = "Error deleting record"]
         /\ hist' = [hist EXCEPT !.pending = rest]
         /\ UNCHANGED <<clients, yatra_entries_backup>>
    ELSE /\ clients' = Delete(clients, id)
         /\ yatra_entries_backup' = BackupAfterDelete(yatra_entries_backup, id, f)
         /\ entries' = WithoutId(entries, id)
         /\ last' = [Call("delete") EXCEPT !.op = "delete", !.id = id, !.fallback = f,
                                   !.outcome = "deleted"]
         /\ hist' = [saved |-> hist.saved \ {id},
                     deleted |-> hist.deleted \cup {id},
                     pending |-> rest]

handleDeleteEntry(id, p, f, rest) ==
    IF p # NoError
    THEN /\ last' = [Call("delete") EXCEPT !.op = "delete", !.id = id, !.primary = p,
                                   !.outcome = "failed",
                                   !.alert = "Error deleting record"]
         /\ hist' = [hist EXCEPT !.pending = rest]
         /\ UNCHANGED <<clients, yatra_entries_backup, entries>>
    ELSE /\ clients' = Delete(clients, id)
         /\ yatra_entries_backup' = BackupAfterDelete(yatra_entries_backup, id, f)
         /\ entries' = WithoutId(entries, id)
         /\ last' = [Call("delete") EXCEPT !.op = "delete", !.id = id, !.fallback = f,
                                   !.outcome = "deleted"]
         /\ hist' = [saved |-> hist.saved \ {id},
                     deleted |-> hist.deleted \cup {id},
                     pending |-> rest]

\* the delete button of a ledger row
DeleteEntry ==
    /\ ~DialogShown
    /\ \E id \in Ids(entries), p \in DeleteClientResults :
          \E f \in (IF p = NoError THEN BackupUpdateResults ELSE {NoError}) :
             handleDeleteEntry(id, p, f, hist.pending)
    /\ UNCHANGED <<now, created, backgrounds, bgImages,
                   showStorageModal, failedEntry>>

(***************************************************************************)
(* Capacity recovery: dbService.stripOldPhotos, dbService.deleteOldRecords *)
(* and the three buttons of StorageRecoveryModal.                          *)
(***************************************************************************)
\* Date.now() - (days * 24 * 60 * 60 * 1000)
Cutoff(days) == now - (days * DayMs)

\* mutant: the age test is entry.timestamp <= cutoff
RECURSIVE StripCursorInclusive(_, _, _)
StripCursorInclusive(cursor, store, cutoff) ==
    IF cursor = <<>> THEN [store |-> store, count |-> 0]
    ELSE LET entry == Head(cursor)
             hit == entry.timestamp <= cutoff /\ Truthy(entry.clientPhoto)
             updatedEntry == [entry EXCEPT !.clientPhoto = Undefined]
             rest == StripCursorInclusive(Tail(cursor),
                                 IF hit THEN Put(store, updatedEntry) ELSE store,
                                 cutoff)
         IN  [store |-> rest.store, count |-> rest.count + (IF hit THEN 1 ELSE 0)]

\* mutant: the photo test is dropped, every old record is updated and counted
RECURSIVE StripCursorEveryOld(_, _, _)
StripCursorEveryOld(cursor, store, cutoff) ==
    IF cursor = <<>> THEN [store |-> store, count |-> 0]
    ELSE LET entry == Head(cursor)
             hit == entry.timestamp < cutoff
             updatedEntry == [entry EXCEPT !.clientPhoto = Undefined]
             rest == StripCursorEveryOld(Tail(cursor),
                                 IF hit THEN Put(store, updatedEntry) ELSE store,
                                 cutoff)
         IN  [store |-> rest.store, count |-> rest.count + (IF hit THEN 1 ELSE 0)]

\* mutant: the updated entry is stamped with the time of the sweep
RECURSIVE StripCursorRestamps(_, _, _)
StripCursorRestamps(cursor, store, cutoff) ==
    IF cursor = <<>> THEN [store |-> store, count |-> 0]
    ELSE LET entry == Head(cursor)
             hit == entry.timestamp < cutoff /\ Truthy(entry.clientPhoto)
             updatedEntry == [entry EXCEPT !.clientPhoto = Undefined,
                                           !.timestamp = now]
             rest == StripCursorRestamps(Tail(cursor),
                                 IF hit THEN Put(store, updatedEntry) ELSE store,
                                 cutoff)
         IN  [store |-> rest.store, count |-> rest.count + (IF hit THEN 1 ELSE 0)]

\* the cursor walk of stripOldPhotos over the records still to visit
RECURSIVE StripCursor(_, _, _)
StripCursor(cursor, store, cutoff) ==
    IF cursor = <<>> THEN [store |-> store, count |-> 0]
    ELSE LET entry == Head(cursor)
             hit == entry.timestamp < cutoff /\ Truthy(entry.clientPhoto)
             updatedEntry == [entry EXCEPT !.clientPhoto = Undefined]
             rest == StripCursor(Tail(cursor),
                                 IF hit THEN Put(store, updatedEntry) ELSE store,
                                 cutoff)
         IN  [store |-> rest.store, count |-> rest.count + (IF hit THEN 1 ELSE 0)]

stripOldPhotos(store, days) == StripCursor(GetAll(store), store, Cutoff(days))

\* mutant: the age test is entry.timestamp <= cutoff
RECURSIVE DeleteCursorInclusive(_, _, _)
DeleteCursorInclusive(cursor, store, cutoff) ==
    IF cursor = <<>> THEN [store |-> store, count |-> 0]
    ELSE LET entry == Head(cursor)
             hit == entry.timestamp <= cutoff
             rest == DeleteCursorInclusive(Tail(cursor),
                                  IF hit THEN Delete(store, entry.id) ELSE store,
                                  cutoff)
         IN  [store |-> rest.store, count |-> rest.count + (IF hit THEN 1 ELSE 0)]

\* mutant: count++ stands outside the age test
RECURSIVE DeleteCursorCountsVisited(_, _, _)
DeleteCursorCountsVisited(cursor, store, cutoff) ==
    IF cursor = <<>> THEN [store |-> store, count |-> 0]
    ELSE LET entry == Head(cursor)
             hit == entry.timestamp < cutoff
             rest == DeleteCursorCountsVisited(Tail(cursor),
                                  IF hit THEN Delete(store, entry.id) ELSE store,
                                  cutoff)
         IN  [store |-> rest.store, count |-> rest.count + 1]

\* the cursor walk of deleteOldRecords
RECURSIVE DeleteCursor(_, _, _)
DeleteCursor(cursor, store, cutoff) ==
    IF cursor = <<>> THEN [store |-> store, count |-> 0]
    ELSE LET entry == Head(cursor)
             hit == entry.timestamp < cutoff
             rest == DeleteCursor(Tail(cursor),
                                  IF hit THEN Delete(store, entry.id) ELSE store,
                                  cutoff)
         IN  [store |-> rest.store, count |-> rest.count + (IF hit THEN 1 ELSE 0)]

deleteOldRecords(store, days) == DeleteCursor(GetAll(store), store, Cutoff(days))

\* openDB rejects, or the cursor request fails: the transaction is aborted
\* and the promise rejects
SweepResults == {NoError, FailedOpen} \cup ReadFailures

\* resolve(count) is called when the cursor has passed the last record, not
\* from transaction.oncomplete: the transaction commits after that, or it
\* aborts with this error and its updates and deletes are undone
CommitResults == {NoError, QuotaExceededError}

\* the part the two sweep buttons share: the sweep, then refreshData, then
\* the alert and onClose -- all inside one try block
Recover(op, answer, swept, p, c, r, done, failed) ==
    IF p # NoError
    THEN /\ last' = [NoCall EXCEPT !.op = op, !.primary = p, !.outcome = "failed",
                                   !.confirm = answer, !.alert = failed]
         /\ UNCHANGED <<clients, entries, showStorageModal, hist>>
    ELSE LET store == IF c = NoError THEN swept.store ELSE clients
         IN  /\ clients' = store
             /\ hist' = [hist EXCEPT !.saved = {id \in @ :
                            (\E x \in clients : x.id = id) =>
                            (\E x \in store : x.id = id)},
                                    !.deleted = @ \cup ({x.id : x \in clients}
                                                         \ {x.id : x \in store})]
             /\ IF r = NoError
                THEN /\ entries' = getAllClients(store)
                     /\ showStorageModal' = FALSE
                     /\ last' = [NoCall EXCEPT !.op = op, !.count = swept.count,
                                               !.commit = c, !.confirm = answer,
                                               !.outcome = "done", !.alert = done,
                                               !.served = "Primary"]
                ELSE /\ last' = [NoCall EXCEPT !.op = op, !.count = swept.count,
                                               !.commit = c, !.confirm = answer,
                                               !.refresh = r, !.outcome = "failed",
                                               !.alert = failed]
                     /\ UNCHANGED <<entries, showStorageModal>>

handleOptimizeImages(p, c, r) ==
    Recover("strip", "none", stripOldPhotos(clients, StripDays), p, c, r,
            "Optimization complete!", "Optimization failed.")

\* mutant: the cleanup runs whatever window.confirm answered
handleDeleteOldUnasked(answer, p, c, r) ==
    Recover("deleteOld", answer, deleteOldRecords(clients, DeleteDays), p, c, r,
            "Cleanup complete!", "Cleanup failed.")

\* if (window.confirm(...)) { try ... catch ... }: nothing else is in the
\* handler, so an answer of Cancel ends it
handleDeleteOld(answer, p, c, r) ==
    IF answer = "ok"
    THEN Recover("deleteOld", answer, deleteOldRecords(clients, DeleteDays), p, c, r,
                 "Cleanup complete!", "Cleanup failed.")
    ELSE /\ last' = [Call("deleteOld") EXCEPT !.outcome = "declined",
                                              !.confirm = answer]
         /\ UNCHANGED <<clients, entries, showStorageModal, hist>>

OptimizeImages ==
    /\ DialogShown
    /\ \E p \in SweepResults :
          \E c \in (IF p = NoError THEN CommitResults ELSE {NoError}) :
          \E r \in (IF p = NoError THEN GetAllClientsResults ELSE {NoError}) :
             handleOptimizeImages(p, c, r)
    /\ UNCHANGED <<now, created, backgrounds, yatra_entries_backup,
                   bgImages, failedEntry>>

\* mutant: the cleanup also removes the localStorage backup
DeleteOldPurgesBackup ==
    /\ DialogShown
    /\ \E p \in SweepResults :
          \E c \in (IF p = NoError THEN CommitResults ELSE {NoError}) :
          \E r \in (IF p = NoError THEN GetAllClientsResults ELSE {NoError}) :
             handleDeleteOld("ok", p, c, r)
    /\ yatra_entries_backup' = NoItem
    /\ UNCHANGED <<now, created, backgrounds, bgImages, failedEntry>>

\* window.confirm answered OK
DeleteOld ==
    /\ DialogShown
    /\ \E p \in SweepResults :
          \E c \in (IF p = NoError THEN CommitResults ELSE {NoError}) :
          \E r \in (IF p = NoError THEN GetAllClientsResults ELSE {NoError}) :
             handleDeleteOld("ok", p, c, r)
    /\ UNCHANGED <<now, created, backgrounds, yatra_entries_backup,
                   bgImages, failedEntry>>

\* window.confirm answered Cancel
DeleteOldDeclined ==
    /\ DialogShown
    /\ \E p \in SweepResults :
          \E c \in (IF p = NoError THEN CommitResults ELSE {NoError}) :
          \E r \in (IF p = NoError THEN GetAllClientsResults ELSE {NoError}) :
             handleDeleteOld("cancel", p, c, r)
    /\ UNCHANGED <<now, created, backgrounds, yatra_entries_backup,
                   bgImages, failedEntry>>

\* mutant: the copy is the failed entry as it is
entryNoPhotoSpreadOnly(entry) == entry

\* const entryNoPhoto = { ...failedEntry, clientPhoto: undefined }
entryNoPhoto(entry) == [entry EXCEPT !.clientPhoto = Undefined]

\* failed: the failedEntry the dialog was rendered with when the button was
\* activated
handleSaveTextOnly(failed, p, rest) ==
    IF p = NoError
    THEN /\ clients' = Put(clients, entryNoPhoto(failed))
         /\ entries' = Prepend(entryNoPhoto(failed), entries)
         /\ showStorageModal' = FALSE
         /\ failedEntry' = Null
         /\ last' = [Call("saveTextOnly") EXCEPT !.op = "saveTextOnly",
                                   !.entry = failed,
                                   !.id = failed.id, !.outcome = "SavedPrimary"]
         /\ hist' = [saved |-> hist.saved \cup {failed.id},
                     deleted |-> hist.deleted \ {failed.id},
                     pending |-> rest]
    ELSE /\ last' = [Call("saveTextOnly") EXCEPT !.op = "saveTextOnly",
                                   !.entry = failed,
                                   !.id = failed.id, !.primary = p,
                                   !.outcome = "failed",
                                   !.alert = "Still cannot save. Critical storage failure."]
         /\ hist' = [hist EXCEPT !.pending = rest]
         /\ UNCHANGED <<clients, entries, showStorageModal, failedEntry>>

SaveTextOnly ==
    /\ DialogShown
    /\ \E p \in SaveClientResults : handleSaveTextOnly(failedEntry, p, hist.pending)
    /\ UNCHANGED <<now, created, backgrounds, yatra_entries_backup,
                   bgImages>>

\* the Cancel button of the dialog: onClose
CloseDialog ==
    /\ DialogShown
    /\ showStorageModal' = FALSE
    /\ last' = [Call("close") EXCEPT !.op = "close"]
    /\ UNCHANGED <<now, created, clients, backgrounds,
                   yatra_entries_backup, entries, bgImages, failedEntry, hist>>

(***************************************************************************)
(* Background images.                                                      *)
(***************************************************************************)
\* dbService.saveBackground / clearBackgrounds: what went wrong (cause) and
\* what the promise rejects with (error). openDB's rejection is passed on. A
\* failed put or clear request reaches transaction.onerror, which rejects
\* with transaction.error: null while the error event is dispatched, the
\* error of the request where the engine has recorded it by then.
BackgroundWriteResults ==
    {[cause |-> NoError, error |-> NoError],
     [cause |-> FailedOpen, error |-> FailedOpen],
     [cause |-> QuotaExceededError, error |-> NullError],
     [cause |-> QuotaExceededError, error |-> QuotaExceededError]}

\* the ids of the files of one upload that were stored, in file order; the
\* id of a file is fresh (Date.now() followed by six random characters)
RECURSIVE StoredImages(_, _)
StoredImages(results, first) ==
    IF results = <<>> THEN <<>>
    ELSE (IF Head(results).error = NoError THEN <<first>> ELSE <<>>)
         \o StoredImages(Tail(results), first + 1)

FreshId(store) == IF store = {} THEN 1
                  ELSE 1 + CHOOSE x \in store : \A y \in store : y <= x

Range(s) == {s[i] : i \in 1..Len(s)}

\* if (isQuotaError(err)) alert(...), for each file that failed
UploadAlert(results) ==
    IF \E i \in 1..Len(results) : isQuotaError(results[i].error)
    THEN "Storage full! Cannot add more background images."
    ELSE "none"

handleImageUpload(results) ==
    LET newImages == StoredImages(results, FreshId(backgrounds))
    IN  /\ backgrounds' = backgrounds \cup Range(newImages)
        /\ bgImages' = bgImages \o newImages
        /\ last' = [Call("upload") EXCEPT !.op = "upload", !.count = Len(newImages),
               !.outcome = "uploaded", !.uploads = results,
               !.alert = UploadAlert(results)]

ImageUpload ==
    /\ ~DialogShown
    /\ \E n \in 1..(MaxBg - Cardinality(backgrounds)) :
          \E results \in [1..n -> BackgroundWriteResults] : handleImageUpload(results)
    /\ UNCHANGED <<now, created, clients, yatra_entries_backup, entries,
                   showStorageModal, failedEntry, hist>>

\* handleClearBackgrounds, once confirmed; the button shows only when hasBg
ClearBackgrounds ==
    /\ ~DialogShown
    /\ bgImages # <<>>
    /\ \E p \in BackgroundWriteResults :
          IF p.error = NoError
          THEN /\ backgrounds' = {}
               /\ bgImages' = <<>>
               /\ last' = [Call("clearBackgrounds") EXCEPT !.op = "clearBackgrounds",
                                         !.outcome = "cleared"]
          ELSE /\ last' = [Call("clearBackgrounds") EXCEPT !.op = "clearBackgrounds",
                                         !.primary = p.error,
                                         !.outcome = "failed",
                                         !.alert = "Error clearing backgrounds"]
               /\ UNCHANGED <<backgrounds, bgImages>>
    /\ UNCHANGED <<now, created, clients, yatra_entries_backup, entries,
                   showStorageModal, failedEntry, hist>>

(***************************************************************************)
(* Specification.                                                          *)
(***************************************************************************)
\* the handlers of the client register
ClientNext ==
    \/ Tick
    \/ Submit
    \/ Mount
    \/ DeleteEntry
    \/ SaveTextOnly
    \/ OptimizeImages
    \/ DeleteOld
    \/ DeleteOldDeclined
    \/ CloseDialog

Next ==
    \/ ClientNext
    \/ ImageUpload
    \/ ClearBackgrounds

Spec == Init /\ [][Next]_vars

\* the client register alone: no background image is ever uploaded
ClientSpec == Init /\ [][ClientNext]_vars

\* saves, uploads and the two sweeps of the recovery dialog
RecoveryNext ==
    \/ Tick
    \/ Submit
    \/ ImageUpload
    \/ OptimizeImages
    \/ DeleteOld
    \/ DeleteOldDeclined
    \/ CloseDialog

RecoverySpec == Init /\ [][RecoveryNext]_vars

\* saves, page loads and the background image handlers
UploadNext ==
    \/ Submit
    \/ Mount
    \/ ImageUpload
    \/ ClearBackgrounds

UploadSpec == Init /\ [][UploadNext]_vars

(***************************************************************************)
(* The two sweeps of dbService called on their own, on a store filled by   *)
(* earlier sessions.                                                       *)
(***************************************************************************)
\* ages in days of the stored records when the first sweep runs: each
\* threshold exactly, and ages on both sides of each
StoredAges == {400, DeleteDays, 200, StripDays, 10}

\* Date.now() at the first sweep
SweepStart == 400 * DayMs

\* later readings of the clock: the next millisecond, and StripDays later
SweepInstants == {SweepStart, SweepStart + 1, SweepStart + (StripDays * DayMs)}

\* the records handleSubmit made at those ages
StoredRecords ==
    {NewEntry(SweepStart - (a * DayMs), random, photo, name) :
        a \in StoredAges, random \in 0..MaxRand,
        photo \in {Undefined, PhotoData}, name \in Names}

\* object stores of at most n records, one record per key
RECURSIVE StoresUpTo(_)
StoresUpTo(n) ==
    IF n = 0 THEN {{}}
    ELSE LET smaller == StoresUpTo(n - 1)
         IN  smaller \cup
             {store \cup {x} : store \in smaller,
                               x \in StoredRecords}

KeysUnique(store) == \A x, y \in store : x.id = y.id => x = y

SweepInit ==
    /\ now = SweepStart
    /\ created = 0
    /\ clients \in {store \in StoresUpTo(MaxStore) : KeysUnique(store)}
    /\ backgrounds = {}
    /\ yatra_entries_backup = NoItem
    /\ entries = <<>>
    /\ bgImages = <<>>
    /\ showStorageModal = FALSE
    /\ failedEntry = Null
    /\ last = NoCall
    /\ hist = [saved |-> {}, deleted |-> {}, pending |-> <<>>]

SweepTick ==
    /\ \E t \in SweepInstants : t > now /\ now' = t
    /\ UNCHANGED <<created, clients, backgrounds, yatra_entries_backup,
                   entries, bgImages, showStorageModal, failedEntry, last, hist>>

\* the sweep that completed last
Completed == IF last.outcome = "done"
             THEN [op |-> last.op, days |-> last.days, at |-> last.at,
                   count |-> last.count]
             ELSE last.prev

\* one call of a sweep with argument days. It resolves with its count and
\* its transaction commits ("done"); or it resolves with its count and the
\* transaction then aborts with c ("lost"); or a request fails with p when
\* the cursor has visited k records, the transaction aborts and the promise
\* rejects ("failed"). An aborted transaction leaves the store as it was.
Sweep(op, swept, days, p, c, k) ==
    /\ clients' = IF p = NoError /\ c = NoError THEN swept.store ELSE clients
    /\ last' = [Call(op) EXCEPT !.op = op, !.days = days, !.at = now, !.primary = p,
                                !.commit = c, !.visited = k,
                                !.count = IF p = NoError THEN swept.count ELSE 0,
                                !.outcome = IF p # NoError THEN "failed"
                                            ELSE IF c # NoError THEN "lost"
                                            ELSE "done",
                                !.prev = Completed]
    /\ UNCHANGED <<now, created, backgrounds, yatra_entries_backup, entries,
                   bgImages, showStorageModal, failedEntry, hist>>

\* the places where a sweep over the store can stop on a failed request:
\* before the first record (the open included), or after a record
Stops(p) ==
    IF p \in ReadFailures
    THEN {k \in 0..MaxVisited : k <= Cardinality(clients)}
    ELSE {0}

StripOldPhotos ==
    \E days \in {StripDays, DeleteDays}, p \in SweepResults :
    \E c \in (IF p = NoError THEN CommitResults ELSE {NoError}) :
    \E k \in (IF p = NoError THEN {Cardinality(clients)} ELSE Stops(p)) :
       Sweep("stripOldPhotos", stripOldPhotos(clients, days), days, p, c, k)

DeleteOldRecords ==
    \E days \in {StripDays, DeleteDays}, p \in SweepResults :
    \E c \in (IF p = NoError THEN CommitResults ELSE {NoError}) :
    \E k \in (IF p = NoError THEN {Cardinality(clients)} ELSE Stops(p)) :
       Sweep("deleteOldRecords", deleteOldRecords(clients, days), days, p, c, k)

SweepNext ==
    \/ SweepTick
    \/ StripOldPhotos
    \/ DeleteOldRecords

SweepSpec == SweepInit /\ [][SweepNext]_vars

(***************************************************************************)
(* A sweep, request by request. While a sweep is "scanning", clients is    *)
(* the store as its readwrite transaction sees it.                         *)
(***************************************************************************)
\* mutant: the cursor keeps a position in the store, not a key
AdvanceByPosition(store, trail) ==
    LET all == GetAll(store)
    IN  IF Len(trail) < Len(all) THEN {all[Len(trail) + 1]} ELSE {}

\* store.openCursor() and cursor.continue(): the record of the least key
\* greater than the key the cursor is on, if there is one
Advance(store, trail) ==
    LET later == {x \in store : trail # <<>> => x.id > trail[Len(trail)]}
    IN  {x \in later : \A y \in later : x.id <= y.id}

\* const request = store.openCursor(), after cutoff was computed
OpenCursor ==
    /\ last.outcome # "scanning"
    /\ \E op \in {"stripOldPhotos", "deleteOldRecords"}, days \in {StripDays, DeleteDays} :
          last' = [Call(op) EXCEPT !.days = days, !.at = now, !.outcome = "scanning"]
    /\ UNCHANGED <<now, created, clients, backgrounds, yatra_entries_backup,
                   entries, bgImages, showStorageModal, failedEntry, hist>>

\* request.onsuccess with a cursor: the age test, cursor.update or
\* cursor.delete and count++ on a hit, then cursor.continue()
CursorStep ==
    /\ last.outcome = "scanning"
    /\ \E entry \in Advance(clients, last.trail) :
          LET old == entry.timestamp < last.at - (last.days * DayMs)
              hit == IF last.op = "stripOldPhotos"
                     THEN old /\ Truthy(entry.clientPhoto)
                     ELSE old
              updatedEntry == [entry EXCEPT !.clientPhoto = Undefined]
          IN  /\ clients' = IF ~hit THEN clients
                            ELSE IF last.op = "stripOldPhotos"
                                 THEN Put(clients, updatedEntry)
                                 ELSE Delete(clients, entry.id)
              /\ last' = [last EXCEPT !.trail = Append(@, entry.id),
                                      !.visited = @ + 1,
                                      !.count = @ + (IF hit THEN 1 ELSE 0)]
    /\ UNCHANGED <<now, created, backgrounds, yatra_entries_backup,
                   entries, bgImages, showStorageModal, failedEntry, hist>>

\* request.onsuccess without a cursor: resolve(count); the transaction then
\* commits, or aborts and its changes are undone
CursorEnd ==
    /\ last.outcome = "scanning"
    /\ Advance(clients, last.trail) = {}
    /\ \E c \in CommitResults :
          /\ last' = [last EXCEPT !.commit = c,
                                  !.outcome = IF c = NoError THEN "done" ELSE "lost"]
          /\ clients' = IF c = NoError THEN clients ELSE last.before.clients
    /\ UNCHANGED <<now, created, backgrounds, yatra_entries_backup,
                   entries, bgImages, showStorageModal, failedEntry, hist>>

\* request.onerror: the promise rejects and the transaction aborts
CursorError ==
    /\ last.outcome = "scanning"
    /\ \E p \in ReadFailures :
          last' = [last EXCEPT !.primary = p, !.count = 0, !.outcome = "failed"]
    /\ clients' = last.before.clients
    /\ UNCHANGED <<now, created, backgrounds, yatra_entries_backup,
                   entries, bgImages, showStorageModal, failedEntry, hist>>

CursorNext ==
    \/ OpenCursor
    \/ CursorStep
    \/ CursorEnd
    \/ CursorError

\* the browser delivers the result of every request that is pending
CursorSpec ==
    /\ SweepInit
    /\ [][CursorNext]_vars
    /\ WF_vars(CursorStep)
    /\ WF_vars(CursorEnd)

(***************************************************************************)
(* The writes of the handlers, from the click that starts one to the       *)
(* moment its promise settles. No button is disabled and no modal is       *)
(* closed while a write is awaited, so a click can follow a click.         *)
(***************************************************************************)
Started(op, entry) ==
    hist' = [hist EXCEPT !.pending = Append(@, [op |-> op, entry |-> entry])]

\* the Confirm button of "Save Record": the callback makes newEntry and
\* awaits onSave(newEntry)
ConfirmSubmit ==
    /\ ~DialogShown
    /\ created < MaxSaves
    /\ Len(hist.pending) < MaxPending
    /\ created' = created + 1
    /\ \E random \in 0..MaxRand, photo \in {Undefined, PhotoData}, name \in Names :
          Started("save", NewEntry(now, random, photo, name))
    /\ UNCHANGED <<now, clients, backgrounds, yatra_entries_backup, entries,
                   bgImages, showStorageModal, failedEntry, last>>

\* the "Yes, Delete" button of "Delete Record": the callback awaits
\* dbService.deleteClient(id)
ConfirmDelete ==
    /\ ~DialogShown
    /\ Len(hist.pending) < MaxPending
    /\ \E i \in 1..Len(entries) : Started("delete", entries[i])
    /\ UNCHANGED <<now, created, clients, backgrounds, yatra_entries_backup,
                   entries, bgImages, showStorageModal, failedEntry, last>>

\* the "Save Without Photo" button: handleSaveTextOnly awaits
\* dbService.saveClient(entryNoPhoto)
ClickSaveTextOnly ==
    /\ DialogShown
    /\ Len(hist.pending) < MaxPending
    /\ Started("saveTextOnly", failedEntry)
    /\ UNCHANGED <<now, created, clients, backgrounds, yatra_entries_backup,
                   entries, bgImages, showStorageModal, failedEntry, last>>

\* transactions on one store settle in the order they were made
Settling(op) == hist.pending # <<>> /\ Head(hist.pending).op = op

SubmitSettles ==
    /\ Settling("save")
    /\ \E p \in SaveClientResults :
          \E f \in (IF FallbackTried(p) THEN BackupWriteResults ELSE {NoError}) :
             handleSaveEntry(Head(hist.pending).entry, p, f, Tail(hist.pending))
    /\ UNCHANGED <<now, created, backgrounds, bgImages>>

DeleteSettles ==
    /\ Settling("delete")
    /\ \E p \in DeleteClientResults :
          \E f \in (IF p = NoError THEN BackupUpdateResults ELSE {NoError}) :
             handleDeleteEntry(Head(hist.pending).entry.id, p, f, Tail(hist.pending))
    /\ UNCHANGED <<now, created, backgrounds, bgImages,
                   showStorageModal, failedEntry>>

SaveTextOnlySettles ==
    /\ Settling("saveTextOnly")
    /\ \E p \in SaveClientResults :
          handleSaveTextOnly(Head(hist.pending).entry, p, Tail(hist.pending))
    /\ UNCHANGED <<now, created, backgrounds, yatra_entries_backup, bgImages>>

\* the transaction of the oldest write aborts when it commits. The abort
\* event reaches no handler: saveClient and deleteClient set oncomplete and
\* onerror only, so the promise stays pending and the handler that awaits
\* it never goes on.
CommitAborts ==
    /\ hist.pending # <<>>
    /\ \E c \in CommitResults \ {NoError} :
          LET w == Head(hist.pending)
          IN  last' = [Call(w.op) EXCEPT !.entry = w.entry, !.id = w.entry.id,
                                        !.commit = c, !.outcome = "unsettled"]
    /\ hist' = [hist EXCEPT !.pending = Tail(@)]
    /\ UNCHANGED <<now, created, clients, backgrounds, yatra_entries_backup,
                   entries, bgImages, showStorageModal, failedEntry>>

WriteNext ==
    \/ Tick
    \/ ConfirmSubmit
    \/ ConfirmDelete
    \/ ClickSaveTextOnly
    \/ SubmitSettles
    \/ DeleteSettles
    \/ SaveTextOnlySettles
    \/ CommitAborts

WriteSpec == Init /\ [][WriteNext]_vars

(***************************************************************************)
(* Claims.                                                                 *)
(***************************************************************************)
\* the last handler run was handleSaveEntry and Primary failed with p
SaveFailedAtPrimary == last.op = "save" /\ last.primary \in Failures

PrimaryUnchanged == clients = last.before.clients
FallbackUnchanged == yatra_entries_backup = last.before.backup

\* C1: a save that reported success, then a load with no delete of the record
\* in between: the loaded ledger holds the record exactly once, whatever
\* failed at write time and at read time.
C1_SavedThenLoadedOnce ==
    last.op = "load" => \A id \in hist.saved : Occurrences(entries, id) = 1

\* C2: a Primary failure classified Quota ends the save in QuotaExceeded for
\* the submitted record: the fallback write is not attempted, Primary is not
\* written again and both tiers hold what they held before the call.
C2_PrimaryQuota ==
    (SaveFailedAtPrimary /\ Classify(last.primary) = "Quota") =>
        /\ last.outcome = "QuotaExceeded"
        /\ last.fallback = NoError
        /\ failedEntry = last.entry
        /\ showStorageModal
        /\ PrimaryUnchanged
        /\ FallbackUnchanged

C2_Witness ==
    /\ SaveFailedAtPrimary
    /\ last.primary = QuotaExceededError
    /\ last.outcome = "QuotaExceeded"
    /\ clients # {}

\* C3: a Primary failure classified Other followed by a fallback write that
\* succeeds ends the save in Saved(Fallback, degraded): the record heads the
\* Fallback collection, the entries the collection held follow it, Primary
\* is unchanged and the caller is told the save went to the backup.
C3_DegradedSave ==
    (SaveFailedAtPrimary /\ Classify(last.primary) = "Other"
        /\ last.fallback = NoError) =>
        /\ last.outcome = "SavedFallback"
        /\ yatra_entries_backup.present
        /\ Len(yatra_entries_backup.text) = Len(last.before.backup.text) + 1
        /\ JSONParse(yatra_entries_backup.text)[1].id = last.entry.id
        /\ JSONParse(yatra_entries_backup.text)[1].timestamp = last.entry.timestamp
        /\ Truthy(JSONParse(yatra_entries_backup.text)[1].clientPhoto)
              = Truthy(last.entry.clientPhoto)
        /\ Tail(yatra_entries_backup.text) = last.before.backup.text
        /\ PrimaryUnchanged
        /\ last.alert = "Saved to Local Backup (Database unavailable)."

C3_Witness ==
    /\ SaveFailedAtPrimary
    /\ last.primary = UnknownError
    /\ last.outcome = "SavedFallback"
    /\ Len(yatra_entries_backup.text) = 2

\* C4: Primary fails with Other and the fallback write fails with Quota: the
\* save ends in QuotaExceeded holding the very record that was submitted,
\* and neither tier is changed by the call.
C4_FallbackQuota ==
    (SaveFailedAtPrimary /\ Classify(last.primary) = "Other"
        /\ last.fallback \in Failures /\ Classify(last.fallback) = "Quota") =>
        /\ last.outcome = "QuotaExceeded"
        /\ failedEntry = last.entry
        /\ showStorageModal
        /\ PrimaryUnchanged
        /\ FallbackUnchanged

C4_Witness ==
    /\ SaveFailedAtPrimary
    /\ last.primary = FailedOpen
    /\ last.fallback = QuotaMessage
    /\ last.outcome = "QuotaExceeded"
    /\ Truthy(failedEntry.clientPhoto)
    /\ yatra_entries_backup.present

\* C5: Primary fails with Other and the fallback write fails with Other: the
\* save ends in Fatal, reported to the caller; the recovery dialog is not
\* opened and neither tier is changed by the call.
C5_Fatal ==
    (SaveFailedAtPrimary /\ Classify(last.primary) = "Other"
        /\ last.fallback \in Failures /\ Classify(last.fallback) = "Other") =>
        /\ last.outcome = "Fatal"
        /\ last.alert = "Error saving record"
        /\ ~showStorageModal
        /\ PrimaryUnchanged
        /\ FallbackUnchanged

C5_Witness ==
    /\ SaveFailedAtPrimary
    /\ last.primary = UnknownError
    /\ last.fallback = SecurityError
    /\ last.outcome = "Fatal"
    /\ yatra_entries_backup.present

\* C6: a Primary that cannot be opened is an Other failure for the save: the
\* fallback write is attempted, and QuotaExceeded is reported only when that
\* write itself fails with Quota.
C6_OpenFailureFallsThrough ==
    (last.op = "save" /\ last.primary \in OpenFailures) =>
        \/ /\ last.fallback = NoError
           /\ last.outcome = "SavedFallback"
           /\ ~FallbackUnchanged
        \/ /\ last.fallback \in Failures
           /\ last.outcome = IF Classify(last.fallback) = "Quota"
                             THEN "QuotaExceeded" ELSE "Fatal"

C6_Witness ==
    /\ last.op = "save"
    /\ last.primary = Unsupported
    /\ last.outcome = "SavedFallback"

\* C7: the loaded ledger is Primary's records whenever the Primary client
\* read succeeded, whatever the background-image load did, and is the
\* Fallback collection whenever the Primary client read failed (and the
\* Fallback item could be read).
C7_FallbackIffPrimaryReadFailed ==
    last.op = "load" =>
        /\ last.primary = NoError => entries = getAllClients(clients)
        /\ (last.primary # NoError /\ last.fallback = NoError) =>
              entries = ParseOrEmpty(yatra_entries_backup)

Sorted(s) == \A i \in 1..(Len(s) - 1) : s[i].timestamp >= s[i + 1].timestamp

\* C8: whichever tier served it, a ledger read (on mount, or the refresh
\* after a sweep) is in non-increasing timestamp order.
C8_NewestFirst == last.served \in {"Primary", "Fallback"} => Sorted(entries)

C8_Witness ==
    /\ last.op = "load"
    /\ last.served = "Fallback"
    /\ Len(entries) = 2
    /\ entries[1].timestamp > entries[2].timestamp

\* C9: a failed ledger read is never reported to the user as an error, at
\* mount as in the refresh that follows a sweep.
C9_ReadNeverSurfaces ==
    (\/ last.op = "load" /\ last.primary # NoError
     \/ last.op \in {"strip", "deleteOld"} /\ last.refresh # NoError) =>
        /\ last.alert = "none"
        /\ last.outcome # "failed"

\* C10: while Primary serves the read, no ledger read returns an id whose
\* delete reported success, until a save stores a record under that id again.
C10_DeletedStaysDeleted ==
    last.served = "Primary" => \A id \in hist.deleted : id \notin Ids(entries)

C10_Witness ==
    /\ last.op = "load"
    /\ last.served = "Primary"
    /\ hist.deleted # {}
    /\ entries # <<>>
    /\ \E i \in 1..Len(ParseOrEmpty(yatra_entries_backup)) :
          ParseOrEmpty(yatra_entries_backup)[i].id \in hist.deleted

\* the entries of a Fallback text stored under another id, in order
TextWithoutId(text, id) == SelectSeq(text, LAMBDA obj : ValueOf(obj, "id") # id)

\* C11: a delete whose Primary delete succeeded reports success whatever the
\* removal from Fallback did: a failed removal leaves the Fallback item as
\* it was; a removal that succeeded leaves no Fallback entry of that id and
\* keeps every other entry, in order.
C11_FallbackRemovalBestEffort ==
    (last.op = "delete" /\ last.primary = NoError) =>
        /\ last.outcome = "deleted"
        /\ last.alert = "none"
        /\ last.id \notin Ids(entries)
        /\ last.id \notin {x.id : x \in clients}
        /\ last.fallback # NoError => FallbackUnchanged
        /\ last.fallback = NoError =>
              /\ last.id \notin Ids(ParseOrEmpty(yatra_entries_backup))
              /\ yatra_entries_backup.text
                    = TextWithoutId(last.before.backup.text, last.id)

C11_Witness ==
    /\ last.op = "delete"
    /\ last.primary = NoError
    /\ last.fallback = NoError
    /\ last.id \in Ids(ParseOrEmpty(last.before.backup))
    /\ Len(yatra_entries_backup.text) = 1

\* C12: a delete whose Primary delete failed (the open included) reports the
\* one generic failure and changes nothing: Primary and Fallback hold what
\* they held and the ledger still shows the record.
C12_NoPartialDelete ==
    (last.op = "delete" /\ last.primary # NoError) =>
        /\ last.outcome = "failed"
        /\ last.alert = "Error deleting record"
        /\ PrimaryUnchanged
        /\ FallbackUnchanged
        /\ last.id \in Ids(entries)

C12_Witness ==
    /\ last.op = "delete"
    /\ last.primary = FailedOpen
    /\ \E x \in clients : x.id = last.id
    /\ last.id \in Ids(ParseOrEmpty(yatra_entries_backup))

\* a sweep called on its own completed: it returned its count
SweepDone(op) == last.op = op /\ last.outcome = "done"

\* the cutoff of the last sweep, from its argument and its clock reading
LastCutoff == last.at - (last.days * DayMs)

\* the records the last stripOldPhotos was to clear
ToStrip ==
    {x \in last.before.clients :
        x.timestamp < LastCutoff /\ x.clientPhoto \notin {Undefined, Absent}}

\* C13: stripOldPhotos(d) clears clientPhoto on exactly the stored records
\* older than now - d days that hold a photo, leaves every other record as
\* it was, and returns the number of records it cleared.
C13_StripExact ==
    SweepDone("stripOldPhotos") =>
        /\ clients = (last.before.clients \ ToStrip)
                       \cup {[x EXCEPT !.clientPhoto = Undefined] : x \in ToStrip}
        /\ last.count = Cardinality(ToStrip)

C13_Witness ==
    /\ SweepDone("stripOldPhotos")
    /\ last.count = 1
    /\ \E x \in clients : x.clientPhoto = PhotoData /\ x.timestamp = LastCutoff
    /\ \E x \in last.before.clients :
          x.clientPhoto = Undefined /\ x.timestamp < LastCutoff

\* the last two sweeps that completed were stripOldPhotos with the same d
StrippedTwice ==
    /\ SweepDone("stripOldPhotos")
    /\ last.prev.op = "stripOldPhotos"
    /\ last.prev.days = last.days

\* C14 as stated: a second stripOldPhotos(d) returns 0 and changes no
\* record, however much time has passed since the first.
C14_StripIdempotent ==
    StrippedTwice =>
        /\ last.count = 0
        /\ clients = last.before.clients

\* C14 amended: a second stripOldPhotos(d) returns 0 and changes no record
\* unless a record holding a photo has become older than d days between the
\* two runs; a second run at the same clock reading always returns 0.
C14_StripIdempotentUntilAged ==
    (/\ StrippedTwice
     /\ \A x \in last.before.clients :
           x.clientPhoto = PhotoData =>
              ~(/\ last.prev.at - (last.days * DayMs) <= x.timestamp
                /\ x.timestamp < LastCutoff)) =>
        /\ last.count = 0
        /\ clients = last.before.clients

C14_Witness ==
    /\ StrippedTwice
    /\ last.prev.count > 0
    /\ last.at > last.prev.at
    /\ last.count = 0
    /\ \E x \in clients : x.clientPhoto = PhotoData

\* C15: deleteOldRecords(d) removes exactly the records with
\* timestamp < now - d days (a record at the cutoff stays) and leaves every
\* other record as it was, field for field.
C15_DeleteExact ==
    SweepDone("deleteOldRecords") =>
        clients = {x \in last.before.clients : x.timestamp >= LastCutoff}

C15_Witness ==
    /\ SweepDone("deleteOldRecords")
    /\ last.count > 0
    /\ \E x \in clients : x.timestamp = LastCutoff /\ x.clientPhoto = PhotoData
    /\ \E x \in clients : x.timestamp > LastCutoff

\* the store of the scenario: three records 400, 200 and 10 days old
ScenarioStore ==
    /\ Cardinality(last.before.clients) = 3
    /\ {last.at - x.timestamp : x \in last.before.clients}
          = {400 * DayMs, 200 * DayMs, 10 * DayMs}

\* C16: the count deleteOldRecords returns is the number of records it
\* removed; on records 400, 200 and 10 days old deleteOldRecords(365)
\* returns 1 and only the 400 day old record is gone.
C16_DeleteCount ==
    SweepDone("deleteOldRecords") =>
        /\ clients \subseteq last.before.clients
        /\ last.count = Cardinality(last.before.clients \ clients)
        /\ (ScenarioStore /\ last.days = DeleteDays) =>
              /\ last.count = 1
              /\ last.before.clients \ clients =
                    {x \in last.before.clients : last.at - x.timestamp = 400 * DayMs}

C16_Witness ==
    /\ SweepDone("deleteOldRecords")
    /\ ScenarioStore
    /\ last.days = DeleteDays
    /\ Cardinality(clients) = 2

\* the reduced-fidelity save was asked for record last.entry
ReducedSave == last.op = "saveTextOnly"

\* C17: a reduced-fidelity save that succeeds stores under R's id a record
\* without photo whose other fields are R's, and heads the ledger with it;
\* no record of another id changes, the Fallback is not written, and the
\* record with its photo is written to no tier, whether the save succeeds
\* or fails.
C17_ReducedSaveStoresNoPhoto ==
    ReducedSave =>
        LET R == last.entry
            stored == {x \in clients : x.id = R.id}
        IN  /\ last.outcome = "SavedPrimary" =>
                  /\ stored = {[id |-> R.id, timestamp |-> R.timestamp,
                                clientName |-> R.clientName,
                                clientPhoto |-> Undefined]}
                  /\ clients \ stored = {x \in last.before.clients : x.id # R.id}
                  /\ entries # <<>>
                  /\ entries[1] \in stored
            /\ last.outcome # "SavedPrimary" => PrimaryUnchanged
            /\ FallbackUnchanged
            /\ R.clientPhoto = PhotoData =>
                  (R \in clients => R \in last.before.clients)

C17_Witness ==
    /\ ReducedSave
    /\ last.outcome = "SavedPrimary"
    /\ last.entry.clientPhoto = PhotoData
    /\ Cardinality(clients) = 2

\* C18: the reduced-fidelity save follows the cascade of handleSaveEntry:
\* a Primary failure classified Other sends the copy to the Fallback (where
\* it is stored when the write succeeds), a Quota failure leaves the dialog
\* open on the record.
C18_ReducedSaveFollowsCascade ==
    (ReducedSave /\ last.primary \in Failures) =>
        IF Classify(last.primary) = "Quota"
        THEN DialogShown /\ failedEntry = last.entry
        ELSE /\ last.outcome = "SavedFallback"
             /\ last.id \in Ids(ParseOrEmpty(yatra_entries_backup))

\* s holds, somewhere, the letters of lower, each in either case
ContainsAnyCase(s, lower, upper) ==
    \E i \in 1..(Len(s) - Len(lower) + 1) :
       \A k \in 1..Len(lower) :
          SubSeq(s, i + k - 1, i + k - 1)
             \in {SubSeq(lower, k, k), SubSeq(upper, k, k)}

\* the failures the rule of the specification calls Quota
Recognised ==
    {e \in Failures :
        \/ e.code \in {22, 1014}
        \/ e.name \in {"QuotaExceededError", "NS_ERROR_DOM_QUOTA_REACHED"}
        \/ ContainsAnyCase(e.message, "quota", "QUOTA")}

\* C19: handleSaveEntry treats a failure as Quota exactly when it carries a
\* quota code or name or its message holds "quota" in any letter case, at
\* the Primary tier (the fallback write is skipped and the dialog opens) as
\* at the Fallback tier (the dialog opens instead of the error alert).
C19_QuotaRule ==
    last.op = "save" =>
        /\ last.primary \in Failures =>
              (last.primary \in Recognised
                 <=> (last.outcome = "QuotaExceeded" /\ last.fallback = NoError))
        /\ last.fallback \in Failures =>
              (last.fallback \in Recognised <=> last.outcome = "QuotaExceeded")

C19_Witness ==
    /\ last.op = "save"
    /\ last.primary = SecurityError
    /\ last.fallback = QuotaMessage
    /\ last.outcome = "QuotaExceeded"

\* C20: a save that ends in a quota condition, the first or the reduced one,
\* leaves the dialog open on the record that failed, with its three
\* buttons ready; handleSaveEntry raises no alert for it.
C20_QuotaOpensDecisionPoint ==
    (\/ last.op = "save" /\ last.outcome = "QuotaExceeded"
     \/ ReducedSave /\ last.primary \in Recognised) =>
        /\ showStorageModal
        /\ failedEntry = last.entry
        /\ failedEntry # Null
        /\ last.op = "save" => last.alert = "none"
        /\ ENABLED SaveTextOnly
        /\ ENABLED OptimizeImages
        /\ ENABLED DeleteOld

C20_Witness ==
    /\ last.op = "save"
    /\ last.outcome = "QuotaExceeded"
    /\ last.fallback = QuotaExceededError
    /\ showStorageModal
    /\ entries # <<>>

\* C21: a step of handleOptimizeImages or handleDeleteOld leaves the
\* Fallback item and the background images, stored and in memory, as they
\* were, whatever the sweep and the refresh did.
C21_SweepsTouchPrimaryOnly ==
    [][(last'.op \in {"strip", "deleteOld"} /\ now' = now) =>
          /\ yatra_entries_backup' = yatra_entries_backup
          /\ backgrounds' = backgrounds
          /\ bgImages' = bgImages]_vars

C21_Witness ==
    /\ last.op = "deleteOld"
    /\ last.outcome = "done"
    /\ backgrounds # {}
    /\ \E i \in 1..Len(ParseOrEmpty(yatra_entries_backup)) :
          ParseOrEmpty(yatra_entries_backup)[i].timestamp < Cutoff(DeleteDays)

\* C22: a record handed to handleSaveEntry is newly created, so a save that
\* Primary accepted stored it under a key that held no record before.
C22_IdsNeverReused ==
    (last.op = "save" /\ last.outcome = "SavedPrimary") =>
        ~ \E x \in last.before.clients : x.id = last.id

\* x and y are one record, but for its photo
SameButPhoto(x, y) ==
    /\ x.id = y.id
    /\ x.timestamp = y.timestamp
    /\ x.clientName = y.clientName

\* the entries of the Fallback item
BackupEntries(item) ==
    {ParseOrEmpty(item)[i] : i \in 1..Len(ParseOrEmpty(item))}

\* C23: every record a tier holds after a step is a record that tier held
\* before it, the same in id, timestamp and every field but clientPhoto, or
\* is the record the step was given to save; no operation stores a record
\* under a changed id or timestamp.
C23_OnlyPhotoChanges ==
    [][/\ \A y \in clients' :
             \/ \E x \in clients : SameButPhoto(x, y)
             \/ /\ last'.op \in {"save", "saveTextOnly"}
                /\ SameButPhoto(last'.entry, y)
       /\ \A y \in BackupEntries(yatra_entries_backup') :
             \/ \E x \in BackupEntries(yatra_entries_backup) : SameButPhoto(x, y)
             \/ /\ last'.op = "save"
                /\ SameButPhoto(last'.entry, y)]_vars

C23_Witness ==
    /\ last.op = "strip"
    /\ last.outcome = "done"
    /\ last.count = 1
    /\ \E x \in clients : x.clientPhoto = Undefined /\ x.timestamp < Cutoff(StripDays)

\* the files of the last upload whose save failed for want of space
QuotaFiles ==
    {i \in 1..Len(last.uploads) :
        /\ last.uploads[i].cause \in Failures
        /\ Classify(last.uploads[i].cause) = "Quota"}

\* C24: an upload in which saveBackground failed on quota raises the
\* capacity warning and nothing else: the client records of both tiers are
\* as before, the recovery dialog stays closed, and exactly the files that
\* were stored are added to the backgrounds.
C24_BackgroundQuotaWarning ==
    (last.op = "upload" /\ QuotaFiles # {}) =>
        /\ last.alert = "Storage full! Cannot add more background images."
        /\ PrimaryUnchanged
        /\ FallbackUnchanged
        /\ ~showStorageModal
        /\ last.count = Cardinality({i \in 1..Len(last.uploads) :
                                        last.uploads[i].cause = NoError})

\* the last call was one of the two sweeps, called on its own
SweepCalled == last.op \in {"stripOldPhotos", "deleteOldRecords"}

\* the store as the first k requests of the last sweep's cursor left it
\* inside the transaction
AfterVisiting(k) ==
    LET visited == SubSeq(GetAll(last.before.clients), 1, k)
    IN  IF last.op = "stripOldPhotos"
        THEN StripCursor(visited, last.before.clients, LastCutoff).store
        ELSE DeleteCursor(visited, last.before.clients, LastCutoff).store

\* C25: a sweep whose scan fails part-way leaves in the store the changes it
\* had made to the records visited until then, and a sweep that returns a
\* count has that many changed or removed records in the store.
C25_SweepKeepsWhatItReports ==
    SweepCalled =>
        /\ last.outcome = "failed" => clients = AfterVisiting(last.visited)
        /\ last.outcome \in {"done", "lost"} =>
              last.count = Cardinality(last.before.clients \ clients)

\* the keys the cursor of the last sweep has yielded
Trail == {last.trail[i] : i \in 1..Len(last.trail)}

\* C26: a sweep over the store ends. Its cursor yields every record of the
\* store once, in ascending key order, a record it has updated or deleted
\* is not yielded again, and when no record is left it resolves with its
\* count, the number of records it changed.
C26_CursorVisitsOnceAndEnds ==
    /\ [](SweepCalled =>
            /\ \A i, j \in 1..Len(last.trail) : i < j => last.trail[i] < last.trail[j]
            /\ Trail \subseteq {x.id : x \in last.before.clients}
            /\ last.outcome \in {"done", "lost"} =>
                  Trail = {x.id : x \in last.before.clients}
            /\ last.outcome = "done" =>
                  /\ clients = AfterVisiting(Cardinality(last.before.clients))
                  /\ last.count = Cardinality(last.before.clients \ clients))
    /\ (last.outcome = "scanning") ~> (last.outcome # "scanning")

C26_Witness ==
    /\ last.op = "deleteOldRecords"
    /\ last.outcome = "done"
    /\ Len(last.trail) = 3
    /\ last.count = 2
    /\ Cardinality(clients) = 1

\* C27: the cleanup by age runs only when window.confirm was answered OK in
\* the same click; an answer of Cancel leaves the records of both tiers, the
\* ledger, the open dialog and its failed entry as they were and raises no
\* alert.
C27_DeleteOldAsksFirst ==
    [][(last'.op = "deleteOld" /\ last' # last) =>
          /\ last'.confirm \in {"ok", "cancel"}
          /\ last'.confirm = "cancel" =>
                /\ clients' = clients
                /\ yatra_entries_backup' = yatra_entries_backup
                /\ entries' = entries
                /\ showStorageModal' = showStorageModal
                /\ failedEntry' = failedEntry
                /\ last'.alert = "none"]_vars

C27_Witness ==
    /\ last.op = "deleteOld"
    /\ last.confirm = "cancel"
    /\ showStorageModal
    /\ \E x \in clients : x.timestamp < Cutoff(DeleteDays)

\* C28: no two writes of one record id are in flight together: a handler
\* does not start a write for an id while an earlier write for that id is
\* still awaited.
C28_OneWriteInFlightPerId ==
    \A i, j \in 1..Len(hist.pending) :
        i < j => hist.pending[i].entry.id # hist.pending[j].entry.id

\* C29: the ledger on screen holds no record id twice and no id that a
\* deleteClient or a deleteOldRecords that succeeded has removed.
C29_LedgerIdsUniqueAndLive ==
    /\ \A id \in Ids(entries) : Occurrences(entries, id) = 1
    /\ \A id \in hist.deleted : id \notin Ids(entries)

\* C30: a call of handleSaveEntry ends, and ends in one of the four
\* outcomes, whatever the tiers answer.
C30_SaveEndsInOneOutcome ==
    last.op = "save" =>
        last.outcome \in {"SavedPrimary", "SavedFallback", "QuotaExceeded", "Fatal"}

====
